---- MODULE Spec2Model ----
(***************************************************************************)
(* Model of youtube_transcriptor.py: the per-item pipeline of main() with  *)
(* its try / except / finally structure, the input resolver extract_url,   *)
(* the audit logger registro and the cleanup helper clean.                 *)
(*                                                                         *)
(* Strings are sequences of one-character strings.  The file system is the *)
(* set of existing paths `files` plus the audit log (`logExists`, `log`).  *)
(* External collaborators (yt-dlp, ffmpeg, whisper, python-docx, the OS)   *)
(* are nondeterministic: each call either returns or raises.               *)
(***************************************************************************)
EXTENDS Integers, Sequences, FiniteSets, TLC

VARIABLES
    argv,         \* command line: [mode |-> "prompt", typed] or [mode |-> "csv", ...]
    pc,           \* position of main()
    videos,       \* main: videos
    idx,          \* main: idx of the for loop (0 before the first item)
    exitosos,     \* main: exitosos
    fallidos,     \* main: fallidos
    input_file,   \* main: input_file (None or a path)
    output_file,  \* main: output_file (None or a path)
    info,         \* main: info returned by download_video (None before)
    exc,          \* the exception being handled / propagating (None if none)
    files,        \* file system: set of existing media / document paths
    logExists,    \* file system: os.path.exists(log_file)
    log,          \* file system: rows of transcriptions_log.csv
    calls,        \* history: calls made for the current item, in order
    started,      \* history: file system at the start of the current run
    given,        \* a helper called on its own: [f |-> name, x |-> argument]
    returned      \* what that call returned (Pending before the call)

vars == <<argv, pc, videos, idx, exitosos, fallidos, input_file, output_file,
          info, exc, files, logExists, log, calls, started, given, returned>>

-----------------------------------------------------------------------------
(* Bounds *)

MaxRows == 2        \* rows of the 'url' column of an input table
MaxSeconds == 3725  \* largest whole number of seconds given to format_timestamp
MaxSegments == 2    \* segments of a transcription result
MaxDateLen == 8     \* characters of a raw upload_date

-----------------------------------------------------------------------------
(* Values *)

None == [k |-> "none"]
Absent == [k |-> "absent"]              \* key missing from the info dict
Str(s) == [k |-> "str", v |-> s]
NaN == [k |-> "nan"]                    \* pandas missing value
Num(n) == [k |-> "num", v |-> n]        \* an int or float

IsSpace(c) == c = " "

RECURSIVE lstrip(_)
lstrip(s) == IF s # <<>> /\ IsSpace(Head(s)) THEN lstrip(Tail(s)) ELSE s

RECURSIVE rstrip(_)
rstrip(s) ==
    IF s # <<>> /\ IsSpace(s[Len(s)]) THEN rstrip(SubSeq(s, 1, Len(s) - 1)) ELSE s

strip(s) == rstrip(lstrip(s))

\* re.sub(r'[<>:"/\\|?*]', '_', title)
Reserved == {"<", ">", ":", "\"", "/", "\\", "|", "?", "*"}
safe_title(t) == [i \in 1..Len(t) |-> IF t[i] \in Reserved THEN "_" ELSE t[i]]

-----------------------------------------------------------------------------
(* Inputs *)

Cells == {NaN, Str(<<" ">>), Str(<<" ", "a">>), Str(<<"b">>)}

Columns == UNION {[1..n -> Cells] : n \in 0..MaxRows}

CsvArgs ==
    {[mode |-> "csv", name |-> <<"videos", ".csv">>, exists |-> TRUE,
      hasUrl |-> TRUE, column |-> c] : c \in Columns}
    \cup
    {[mode |-> "csv", name |-> <<"videos", ".txt">>, exists |-> TRUE,
      hasUrl |-> TRUE, column |-> <<Str(<<"b">>)>>],
     [mode |-> "csv", name |-> <<"videos", ".csv">>, exists |-> FALSE,
      hasUrl |-> FALSE, column |-> <<>>],
     [mode |-> "csv", name |-> <<"videos", ".csv">>, exists |-> TRUE,
      hasUrl |-> FALSE, column |-> <<>>],
     \* a column of numbers only: read_csv delivers ints, not strings
     [mode |-> "csv", name |-> <<"videos", ".csv">>, exists |-> TRUE,
      hasUrl |-> TRUE, column |-> <<Num(7)>>]}

PromptArgs == {[mode |-> "prompt", typed |-> t] : t \in {<<"a">>, <<"b", " ">>}}

Args == CsvArgs \cup PromptArgs

Date8 == <<"2", "0", "0", "8", "1", "0", "1", "0">>
TitleA == <<"A">>
TitleB == <<"B", ":">>

\* what yt-dlp may return for a video
Full == [title |-> Str(TitleA), upload_date |-> Str(Date8), duration |-> Num(3725),
         view_count |-> Num(10), uploader |-> Str(<<"c">>),
         filepath |-> TitleA \o <<".webm">>]

Infos ==
    {Full,
     [title |-> Str(TitleB), upload_date |-> Absent, duration |-> Absent,
      view_count |-> Absent, uploader |-> Absent, filepath |-> TitleB \o <<".webm">>],
     [Full EXCEPT !.upload_date = None],
     [Full EXCEPT !.title = Absent, !.filepath = <<"NA", ".webm">>]}

DownloadError == "download failed"
TitleKeyError == "'title'"
ConvertError == "ffmpeg returned non-zero exit status"
TranscribeError == "transcribe failed"
WordError == "document save failed"
DateTypeError == "object of type 'NoneType' has no len()"
LogIOError == "cannot open transcriptions_log.csv"

-----------------------------------------------------------------------------
(* extract_url *)

EndsWithCsv(name) == name # <<>> /\ name[Len(name)] = ".csv"

\* pd.notna(link) and str(link).strip()
KeepLink(link) == link.k = "num" \/ (link.k = "str" /\ strip(link.v) # <<>>)

\* line 121: link.strip() exists for strings only
strip_raises(column) == \E n \in 1..Len(column) : column[n].k = "num"

StripError == "AttributeError: 'int' object has no attribute 'strip'"

RECURSIVE urls_of(_)
urls_of(column) ==
    IF column = <<>> THEN <<>>
    ELSE IF KeepLink(Head(column))
         THEN <<strip(Head(column).v)>> \o urls_of(Tail(column))
         ELSE urls_of(Tail(column))

Raise(m) == [ok |-> FALSE, err |-> m, urls |-> <<>>]

\* faulty variant: the check for an empty result is missing
extract_url_no_empty_check(csv) ==
    IF ~EndsWithCsv(csv.name) THEN Raise("ValueError: not a CSV file")
    ELSE IF ~csv.exists THEN Raise("FileNotFoundError")
    ELSE IF ~csv.hasUrl THEN Raise("ValueError: no 'url' column")
    ELSE IF strip_raises(csv.column) THEN Raise(StripError)
    ELSE [ok |-> TRUE, err |-> "", urls |-> urls_of(csv.column)]

extract_url(csv) ==
    IF ~EndsWithCsv(csv.name) THEN Raise("ValueError: not a CSV file")
    ELSE IF ~csv.exists THEN Raise("FileNotFoundError")
    ELSE IF ~csv.hasUrl THEN Raise("ValueError: no 'url' column")
    ELSE IF strip_raises(csv.column) THEN Raise(StripError)
    ELSE IF urls_of(csv.column) = <<>> THEN Raise("ValueError: no valid URLs")
    ELSE [ok |-> TRUE, err |-> "", urls |-> urls_of(csv.column)]

-----------------------------------------------------------------------------
(* registro *)

NA == <<"N", "/", "A">>

Cell(s) == [k |-> "str", v |-> s]
Header == [title |-> Cell(<<"title">>), upload_date |-> Cell(<<"upload_date">>),
           duration |-> Cell(<<"duration">>), view_count |-> Cell(<<"view_count">>),
           channel |-> Cell(<<"channel">>),
           URL |-> Cell(<<"URL">>), status |-> Cell(<<"status">>), msg |-> ""]

Digits == <<"0", "1", "2", "3", "4", "5", "6", "7", "8", "9">>

\* str(n) for a non-negative int
RECURSIVE dec(_)
dec(n) == IF n < 10 THEN <<Digits[n + 1]>> ELSE dec(n \div 10) \o <<Digits[(n % 10) + 1]>>

\* f"{n:02d}"
pad2(n) == IF n < 10 THEN <<"0">> \o dec(n) ELSE dec(n)

\* lines 266-271: int and float durations become "HH:MM:SS"
format_duration(d) ==
    IF d.k = "num"
    THEN Str(pad2(d.v \div 3600) \o <<":">> \o pad2((d.v % 3600) \div 60)
             \o <<":">> \o pad2(d.v % 60))
    ELSE d

\* info.get(key, 'N/A')
get(value) == IF value = Absent THEN Str(NA) ELSE value

\* faulty variant: the day is sliced from the wrong position
format_date_wrong_slice(d) ==
    IF d.v # NA /\ Len(d.v) = 8
    THEN Str(SubSeq(d.v, 1, 4) \o <<"-">> \o SubSeq(d.v, 5, 6) \o <<"-">> \o SubSeq(d.v, 6, 8))
    ELSE d

\* lines 261-263; applies only when len() is defined
format_date(d) ==
    IF d.v # NA /\ Len(d.v) = 8
    THEN Str(SubSeq(d.v, 1, 4) \o <<"-">> \o SubSeq(d.v, 5, 6) \o <<"-">> \o SubSeq(d.v, 7, 8))
    ELSE d

\* lines 249-258: the row for an exception
error_row(e, url) ==
    [title |-> Cell(NA), upload_date |-> Cell(NA), duration |-> Cell(NA),
     view_count |-> Cell(NA), channel |-> Cell(NA), URL |-> Cell(url),
     status |-> Cell(<<"Error">>), msg |-> e]

\* lines 259-281: the row for a metadata dict
success_row(i, url) ==
    [title |-> get(i.title), upload_date |-> format_date(get(i.upload_date)),
     duration |-> format_duration(get(i.duration)),
     view_count |-> get(i.view_count), channel |-> get(i.uploader),
     URL |-> Cell(url), status |-> Cell(<<"Success">>), msg |-> ""]

\* line 262 raises TypeError when upload_date is None
row_raises(i) == get(i.upload_date) = None

\* faulty variant: the header is written by every call
write_header_always(exists) == TRUE

\* line 284
write_header(exists) == ~exists

\* faulty variant: the call that creates the file writes only the header
to_csv_header_only(lg, exists, row) ==
    IF write_header(exists) THEN lg \o <<Header>> ELSE lg \o <<row>>

\* lines 286-291: df.to_csv(mode="a", header=write_header)
to_csv(lg, exists, row) ==
    IF write_header(exists) THEN lg \o <<Header, row>> ELSE lg \o <<row>>

-----------------------------------------------------------------------------
(* clean *)

\* lines 235-241 for one archivo; ok says whether os.remove succeeds
remove_one(fs, archivo, ok) ==
    IF archivo # None /\ archivo.v \in fs /\ ok THEN fs \ {archivo.v} ELSE fs

\* faulty variant: only the converted file is removed
clean_output_only(fs, inp, out, ok1, ok2) == remove_one(fs, out, ok2)

clean(fs, inp, out, ok1, ok2) == remove_one(remove_one(fs, inp, ok1), out, ok2)

\* an os.remove that was attempted and failed
remove_failed(fs, inp, out, ok1, ok2) ==
    \/ inp # None /\ inp.v \in fs /\ ~ok1
    \/ out # None /\ out.v \in remove_one(fs, inp, ok1) /\ ~ok2

-----------------------------------------------------------------------------
(* format_timestamp and word *)

\* Seconds are fixed-point numbers with one decimal, held as a number of
\* tenths: 125.9 s is 1259.
Tenths(whole, frac) == 10 * whole + frac

\* faulty variant: the seconds are rounded instead of truncated
format_timestamp_rounds(seconds) ==
    LET hours == seconds \div Tenths(3600, 0)
        minutes == (seconds % Tenths(3600, 0)) \div Tenths(60, 0)
        secs == ((seconds % Tenths(60, 0)) + 5) \div Tenths(1, 0)
    IN  IF hours > 0
        THEN pad2(hours) \o <<":">> \o pad2(minutes) \o <<":">> \o pad2(secs)
        ELSE pad2(minutes) \o <<":">> \o pad2(secs)

\* lines 221-228
format_timestamp(seconds) ==
    LET hours == seconds \div Tenths(3600, 0)
        minutes == (seconds % Tenths(3600, 0)) \div Tenths(60, 0)
        secs == (seconds % Tenths(60, 0)) \div Tenths(1, 0)
    IN  IF hours > 0
        THEN pad2(hours) \o <<":">> \o pad2(minutes) \o <<":">> \o pad2(secs)
        ELSE pad2(minutes) \o <<":">> \o pad2(secs)

List(q) == [k |-> "list", v |-> q]

Heading == [kind |-> "heading", bold |-> <<>>, text |-> <<"Transcripción de Audio">>]

\* lines 196-202: one paragraph, timestamps in a bold run, then the text
segment_paragraph(segment) ==
    [kind |-> "paragraph",
     bold |-> <<"[">> \o format_timestamp(segment.start) \o <<" ", "→", " ">>
              \o format_timestamp(segment.end) \o <<"]", " ">>,
     text |-> strip(segment.text)]

\* line 205
text_paragraph(text) == [kind |-> "paragraph", bold |-> <<>>, text |-> text]

\* lines 187-207: the blocks of the saved document
word(result) ==
    IF result.segments # Absent
    THEN <<Heading>> \o [n \in 1..Len(result.segments.v) |->
                            segment_paragraph(result.segments.v[n])]
    ELSE <<Heading, text_paragraph(result.text)>>

-----------------------------------------------------------------------------
(* main *)

NoExc == ""

Pending == [k |-> "pending"]

Call(op, arg, ok) == [op |-> op, arg |-> arg, ok |-> ok]

\* faulty variant: the work list is walked from its end
url_reversed == videos[Len(videos) + 1 - idx]

url == videos[idx]

\* The working directory when the script starts: fresh, or as an earlier run
\* of the script left it (one item that succeeded, one item that failed at
\* the download).
Workdirs ==
    {[files |-> {}, logExists |-> FALSE, log |-> <<>>],
     [files |-> {TitleA \o <<".docx">>}, logExists |-> TRUE,
      log |-> <<Header, success_row(Full, <<"b">>)>>],
     [files |-> {}, logExists |-> TRUE,
      log |-> <<Header, error_row(DownloadError, <<"a">>)>>]}

Snapshot == [files |-> files, logExists |-> logExists, log |-> log]

Init ==
    /\ argv \in Args
    /\ pc = "start"
    /\ videos = <<>>
    /\ idx = 0
    /\ exitosos = 0
    /\ fallidos = 0
    /\ input_file = None
    /\ output_file = None
    /\ info = None
    /\ exc = NoExc
    /\ \E w \in Workdirs :
          /\ files = w.files
          /\ logExists = w.logExists
          /\ log = w.log
          /\ started = w
    /\ calls = <<>>
    /\ given = None
    /\ returned = Pending

\* lines 31-34: resolve the work list
ResolveInput ==
    /\ pc = "start"
    /\ IF argv.mode = "csv"
       THEN LET r == extract_url(argv) IN
            IF r.ok
            THEN /\ videos' = r.urls
                 /\ pc' = "load"
                 /\ exc' = exc
            ELSE /\ videos' = videos
                 /\ pc' = "aborted"
                 /\ exc' = r.err
       ELSE /\ videos' = <<argv.typed>>
            /\ pc' = "load"
            /\ exc' = exc
    /\ UNCHANGED <<given, returned, argv, idx, exitosos, fallidos, input_file, output_file, info,
                   files, logExists, log, calls, started>>

\* lines 36-47: get_device, whisper.load_model, counters
LoadModel ==
    /\ pc = "load"
    /\ \E ok \in BOOLEAN :
          IF ok
          THEN /\ pc' = "loop"
               /\ exitosos' = 0
               /\ fallidos' = 0
               /\ exc' = exc
          ELSE /\ pc' = "aborted"
               /\ exc' = "model load failed"
               /\ UNCHANGED <<exitosos, fallidos>>
    /\ UNCHANGED <<given, returned, argv, videos, idx, input_file, output_file, info,
                   files, logExists, log, calls, started>>

\* faulty variant: input_file and output_file are initialised once, before
\* the loop, and keep their values from one item to the next
NextItem_keeps_paths ==
    /\ pc = "loop"
    /\ idx < Len(videos)
    /\ idx' = idx + 1
    /\ calls' = <<>>
    /\ pc' = "download"
    /\ UNCHANGED <<given, returned, argv, videos, exitosos, fallidos, info, exc,
                   input_file, output_file, files, logExists, log, started>>

\* lines 49-58: next iteration of the for loop
NextItem ==
    /\ pc = "loop"
    /\ idx < Len(videos)
    /\ idx' = idx + 1
    /\ input_file' = None
    /\ output_file' = None
    /\ calls' = <<>>
    /\ pc' = "download"
    /\ UNCHANGED <<given, returned, argv, videos, exitosos, fallidos, info, exc,
                   files, logExists, log, started>>

\* lines 61-63: info = download_video(url)
Download ==
    /\ pc = "download"
    /\ \/ \E i \in Infos :
             /\ info' = i
             /\ files' = files \cup {i.filepath}
             /\ calls' = Append(calls, Call("download_video", "", TRUE))
             /\ pc' = "title"
             /\ exc' = exc
       \/ /\ exc' = DownloadError
          /\ calls' = Append(calls, Call("download_video", "", FALSE))
          /\ pc' = "except"
          /\ UNCHANGED <<info, files>>
    /\ UNCHANGED <<given, returned, argv, videos, idx, exitosos, fallidos, input_file, output_file,
                   logExists, log, started>>

\* line 64: print(info['title'][:50])
PrintTitle ==
    /\ pc = "title"
    /\ IF info.title = Absent
       THEN /\ exc' = TitleKeyError
            /\ pc' = "except"
       ELSE /\ exc' = exc
            /\ pc' = "convert"
    /\ UNCHANGED <<given, returned, argv, videos, idx, exitosos, fallidos, input_file, output_file,
                   info, files, logExists, log, calls, started>>

\* lines 66-69 and 156-176: input_file, output_file = convert_to_wav(info)
Convert ==
    /\ pc = "convert"
    /\ LET wav == safe_title(info.title.v) \o <<".wav">> IN
       \/ /\ files' = files \cup {wav}
          /\ input_file' = Str(info.filepath)
          /\ output_file' = Str(wav)
          /\ calls' = Append(calls, Call("convert_to_wav", "", TRUE))
          /\ pc' = "transcribe"
          /\ exc' = exc
       \/ \E partial \in BOOLEAN :
             /\ files' = IF partial THEN files \cup {wav} ELSE files
             /\ exc' = ConvertError
             /\ calls' = Append(calls, Call("convert_to_wav", "", FALSE))
             /\ pc' = "except"
             /\ UNCHANGED <<input_file, output_file>>
    /\ UNCHANGED <<given, returned, argv, videos, idx, exitosos, fallidos, info,
                   logExists, log, started>>

\* faulty variant: a transcription error is swallowed and rendering goes on
Transcribe_swallows_error ==
    /\ pc = "transcribe"
    /\ \E ok \in BOOLEAN : calls' = Append(calls, Call("transcribe", "", ok))
    /\ pc' = "word"
    /\ UNCHANGED <<given, returned, argv, videos, idx, exitosos, fallidos, input_file, output_file,
                   info, exc, files, logExists, log, started>>

\* lines 71-74: result = model.transcribe(output_file, ...)
Transcribe ==
    /\ pc = "transcribe"
    /\ \/ /\ calls' = Append(calls, Call("transcribe", "", TRUE))
          /\ pc' = "word"
          /\ exc' = exc
       \/ /\ calls' = Append(calls, Call("transcribe", "", FALSE))
          /\ exc' = TranscribeError
          /\ pc' = "except"
    /\ UNCHANGED <<given, returned, argv, videos, idx, exitosos, fallidos, input_file, output_file,
                   info, files, logExists, log, started>>

\* lines 76-79: word(result, safe_title + ".docx")
Word ==
    /\ pc = "word"
    /\ \/ /\ files' = files \cup {safe_title(info.title.v) \o <<".docx">>}
          /\ calls' = Append(calls, Call("word", "", TRUE))
          /\ pc' = "registro"
          /\ exc' = exc
       \/ /\ calls' = Append(calls, Call("word", "", FALSE))
          /\ exc' = WordError
          /\ pc' = "except"
          /\ files' = files
    /\ UNCHANGED <<given, returned, argv, videos, idx, exitosos, fallidos, input_file, output_file,
                   info, logExists, log, started>>

\* faulty variant: exitosos is incremented before registro is called
RecordSuccess_counts_first ==
    /\ pc = "registro"
    /\ exitosos' = exitosos + 1
    /\ \/ /\ ~row_raises(info)
          /\ log' = to_csv(log, logExists, success_row(info, url))
          /\ logExists' = TRUE
          /\ calls' = Append(calls, Call("registro", "info", TRUE))
          /\ pc' = "finally"
          /\ exc' = exc
       \/ /\ exc' = IF row_raises(info) THEN DateTypeError ELSE LogIOError
          /\ calls' = Append(calls, Call("registro", "info", FALSE))
          /\ pc' = "except"
          /\ UNCHANGED <<log, logExists>>
    /\ UNCHANGED <<given, returned, argv, videos, idx, fallidos, input_file, output_file,
                   info, files, started>>

\* lines 81-85: registro(info, url, log_file); exitosos += 1
RecordSuccess ==
    /\ pc = "registro"
    /\ \/ /\ ~row_raises(info)
          /\ log' = to_csv(log, logExists, success_row(info, url))
          /\ logExists' = TRUE
          /\ exitosos' = exitosos + 1
          /\ calls' = Append(calls, Call("registro", "info", TRUE))
          /\ pc' = "finally"
          /\ exc' = exc
       \/ /\ exc' = IF row_raises(info) THEN DateTypeError ELSE LogIOError
          /\ calls' = Append(calls, Call("registro", "info", FALSE))
          /\ pc' = "except"
          /\ UNCHANGED <<log, logExists, exitosos>>
    /\ UNCHANGED <<given, returned, argv, videos, idx, fallidos, input_file, output_file,
                   info, files, started>>

\* faulty variant: the handler increments exitosos
ExceptHandler_counts_success ==
    /\ pc = "except"
    /\ \/ /\ log' = to_csv(log, logExists, error_row(exc, url))
          /\ logExists' = TRUE
          /\ exitosos' = exitosos + 1
          /\ calls' = Append(calls, Call("registro", exc, TRUE))
          /\ exc' = NoExc
       \/ /\ exc' = LogIOError
          /\ calls' = Append(calls, Call("registro", exc, FALSE))
          /\ UNCHANGED <<log, logExists, exitosos>>
    /\ pc' = "finally"
    /\ UNCHANGED <<given, returned, argv, videos, idx, fallidos, input_file, output_file,
                   info, files, started>>

\* lines 87-90: except Exception as e: registro(e, url, log_file); fallidos += 1
ExceptHandler ==
    /\ pc = "except"
    /\ \/ /\ log' = to_csv(log, logExists, error_row(exc, url))
          /\ logExists' = TRUE
          /\ fallidos' = fallidos + 1
          /\ calls' = Append(calls, Call("registro", exc, TRUE))
          /\ exc' = NoExc
       \/ /\ exc' = LogIOError
          /\ calls' = Append(calls, Call("registro", exc, FALSE))
          /\ UNCHANGED <<log, logExists, fallidos>>
    /\ pc' = "finally"
    /\ UNCHANGED <<given, returned, argv, videos, idx, exitosos, input_file, output_file,
                   info, files, started>>

\* faulty variant: clean is the last statement of the loop body instead of a
\* finally block, so a propagating exception skips it
Finally_not_guaranteed ==
    /\ pc = "finally"
    /\ IF exc = NoExc
       THEN /\ \E ok1, ok2 \in BOOLEAN :
                  /\ files' = clean(files, input_file, output_file, ok1, ok2)
                  /\ calls' = Append(calls,
                        Call("clean", "",
                             ~remove_failed(files, input_file, output_file, ok1, ok2)))
            /\ pc' = "loop"
       ELSE /\ pc' = "aborted"
            /\ UNCHANGED <<files, calls>>
    /\ UNCHANGED <<given, returned, argv, videos, idx, exitosos, fallidos, input_file, output_file,
                   info, exc, logExists, log, started>>

\* faulty variant: a removal that fails is counted as a failure of the item
Finally_counts_removal_failure ==
    /\ pc = "finally"
    /\ \E ok1, ok2 \in BOOLEAN :
          /\ files' = clean(files, input_file, output_file, ok1, ok2)
          /\ calls' = Append(calls,
                Call("clean", "", ~remove_failed(files, input_file, output_file, ok1, ok2)))
          /\ fallidos' = IF remove_failed(files, input_file, output_file, ok1, ok2)
                         THEN fallidos + 1 ELSE fallidos
    /\ pc' = IF exc = NoExc THEN "loop" ELSE "aborted"
    /\ UNCHANGED <<given, returned, argv, videos, idx, exitosos, input_file, output_file,
                   info, exc, logExists, log, started>>

\* lines 92-94: finally: clean(input_file, output_file); a pending exception
\* then leaves main()
Finally ==
    /\ pc = "finally"
    /\ \E ok1, ok2 \in BOOLEAN :
          /\ files' = clean(files, input_file, output_file, ok1, ok2)
          /\ calls' = Append(calls,
                Call("clean", "", ~remove_failed(files, input_file, output_file, ok1, ok2)))
    /\ pc' = IF exc = NoExc THEN "loop" ELSE "aborted"
    /\ UNCHANGED <<given, returned, argv, videos, idx, exitosos, fallidos, input_file, output_file,
                   info, exc, logExists, log, started>>

\* lines 96-103: the final summary
Summary ==
    /\ pc = "loop"
    /\ idx = Len(videos)
    /\ pc' = "done"
    /\ UNCHANGED <<given, returned, argv, videos, idx, exitosos, fallidos, input_file, output_file,
                   info, exc, files, logExists, log, calls, started>>

Next ==
    \/ ResolveInput
    \/ LoadModel
    \/ NextItem
    \/ Download
    \/ PrintTitle
    \/ Convert
    \/ Transcribe
    \/ Word
    \/ RecordSuccess
    \/ ExceptHandler
    \/ Finally
    \/ Summary

Spec == Init /\ [][Next]_vars

-----------------------------------------------------------------------------
(* The helpers called on their own *)

Segments ==
    {[start |-> Tenths(0, 0), end |-> Tenths(125, 5), text |-> <<" ", "h">>],
     [start |-> Tenths(125, 5), end |-> Tenths(3725, 0), text |-> <<"o", " ">>]}

Results ==
    {[text |-> t, segments |-> sg] :
        t \in {<<>>, <<"h", " ", "o">>},
        sg \in {Absent} \cup
               {List(q) : q \in UNION {[1..n -> Segments] : n \in 0..MaxSegments}}}

DateChars == {"1", "-"}

RawDates ==
    {Absent, None} \cup
    {Str(d) : d \in UNION {[1..n -> DateChars] : n \in 0..MaxDateLen}}

Given ==
    {[f |-> "format_timestamp", x |-> Tenths(w, fr)] : w \in 0..MaxSeconds, fr \in {0, 9}}
    \cup
    {[f |-> "word", x |-> [result |-> r, documento |-> safe_title(TitleB) \o <<".docx">>]] :
        r \in Results}
    \cup
    {[f |-> "registro", x |-> [info |-> [Full EXCEPT !.upload_date = d], url |-> <<"a">>]] :
        d \in RawDates}

InitHelper ==
    /\ given \in Given
    /\ returned = Pending
    /\ pc = "helper"
    /\ argv = None
    /\ videos = <<>>
    /\ idx = 0
    /\ exitosos = 0
    /\ fallidos = 0
    /\ input_file = None
    /\ output_file = None
    /\ info = None
    /\ exc = NoExc
    /\ \E w \in Workdirs :
          /\ files = w.files
          /\ logExists = w.logExists
          /\ log = w.log
          /\ started = w
    /\ calls = <<>>

\* format_timestamp(seconds)
CallFormatTimestamp ==
    /\ pc = "helper"
    /\ given.f = "format_timestamp"
    /\ returned' = Str(format_timestamp(given.x))
    /\ pc' = "returned"
    /\ UNCHANGED <<given, argv, videos, idx, exitosos, fallidos, input_file, output_file,
                   info, exc, files, logExists, log, calls, started>>

\* word(result, documento)
CallWord ==
    /\ pc = "helper"
    /\ given.f = "word"
    /\ returned' = List(word(given.x.result))
    /\ files' = files \cup {given.x.documento}
    /\ pc' = "returned"
    /\ UNCHANGED <<given, argv, videos, idx, exitosos, fallidos, input_file, output_file,
                   info, exc, logExists, log, calls, started>>

\* registro(info, url, output_csv) with a metadata dict
CallRegistro ==
    /\ pc = "helper"
    /\ given.f = "registro"
    /\ IF row_raises(given.x.info)
       THEN /\ exc' = DateTypeError
            /\ pc' = "raised"
            /\ UNCHANGED <<log, logExists>>
       ELSE /\ log' = to_csv(log, logExists, success_row(given.x.info, given.x.url))
            /\ logExists' = TRUE
            /\ pc' = "returned"
            /\ exc' = exc
    /\ returned' = None
    /\ UNCHANGED <<given, argv, videos, idx, exitosos, fallidos, input_file, output_file,
                   info, files, calls, started>>

NextHelper ==
    \/ CallFormatTimestamp
    \/ CallWord
    \/ CallRegistro

SpecHelper == InitHelper /\ [][NextHelper]_vars

-----------------------------------------------------------------------------
(* Vocabulary of the properties *)

Stages == <<"download_video", "convert_to_wav", "transcribe", "word">>

StageSet == {Stages[n] : n \in 1..Len(Stages)}

StageError(op) ==
    CASE op = "download_video" -> DownloadError
      [] op = "convert_to_wav" -> ConvertError
      [] op = "transcribe" -> TranscribeError
      [] op = "word" -> WordError

IsData(r) == r # Header
DataRows(lg) == SelectSeq(lg, IsData)

\* the rows appended to the audit log since the run started
GainedRows ==
    SubSeq(DataRows(log), Len(DataRows(started.log)) + 1, Len(DataRows(log)))
Gained == Len(GainedRows)

IsSuccess(r) == r.status = Cell(<<"Success">>)
IsError(r) == r.status = Cell(<<"Error">>)

Called(op, ok) == \E n \in 1..Len(calls) : calls[n].op = op /\ calls[n].ok = ok
Count(op) == Cardinality({n \in 1..Len(calls) : calls[n].op = op})
LastCall == calls[Len(calls)]

\* the item numbered idx has been left: its finally block has run
ItemFinished == pc \in {"loop", "done", "aborted"} /\ idx >= 1
InItem == pc \in {"download", "title", "convert", "transcribe", "word",
                  "registro", "except", "finally"}

StageFailed == \E n \in 1..Len(calls) : calls[n].op \in StageSet /\ ~calls[n].ok

-----------------------------------------------------------------------------
(* C1 *)

\* C1 as stated: once item k is finished the log has gained exactly k rows,
\* whatever the stages and the recording step did.
C1_Original == ItemFinished => Gained = idx

\* C1 amended: after item k the log has gained exactly k rows, one per source
\* reference in order, unless the except handler's own registro call raised
\* for item k; then item k has no row, the run ends after its cleanup with
\* k-1 rows.  No item ever has two rows.
C1_OneRowPerItem ==
    /\ pc \in {"loop", "done"} => Gained = idx
    /\ (pc = "aborted" /\ idx >= 1) => Gained = idx - 1
    /\ Gained <= idx
    /\ \A k \in 1..Gained : GainedRows[k].URL = Cell(videos[k])

\* the success-path recording raised and the handler recorded the item
C1_Witness ==
    /\ pc = "done"
    /\ idx = 2
    /\ Called("registro", FALSE)
    /\ Called("registro", TRUE)
    /\ Gained = 2

-----------------------------------------------------------------------------
(* C2 *)

\* C2: if acquisition succeeded and normalization failed, the raw artifact was
\* handed to clean and is gone when the item is left (no removal failed).
C2_RawRemovedAfterNormalizeFailure ==
    (/\ ItemFinished
     /\ Called("download_video", TRUE)
     /\ Called("convert_to_wav", FALSE)
     /\ Called("clean", TRUE))
    => (input_file = Str(info.filepath) /\ info.filepath \notin files)

-----------------------------------------------------------------------------
(* C3 *)

\* C3: a stage failure of item i does not keep later items from being
\* processed: a run that has ended after a stage failure of its last
\* attempted item has attempted every item of the work list.
C3_LaterItemsAttempted ==
    (pc \in {"done", "aborted"} /\ idx >= 1 /\ StageFailed) => idx = Len(videos)

-----------------------------------------------------------------------------
(* C4 *)

C4_State ==
    /\ ItemFinished =>
          /\ Count("clean") = 1
          /\ LastCall.op = "clean"
          /\ Len(calls) >= 2
          /\ calls[Len(calls) - 1].op = "registro"
    /\ InItem => Count("clean") = 0

C4_Step ==
    /\ (idx' # idx /\ idx >= 1) => (calls # <<>> /\ LastCall.op = "clean")
    /\ Count("clean")' > Count("clean") =>
          (calls # <<>> /\ LastCall.op = "registro")

\* C4: clean is called exactly once per item, right after the item's registro
\* attempt (successful or raising) and before the next item starts, on every
\* path.
C4_CleanOncePerItem == []C4_State /\ [][C4_Step]_vars

\* the handler's registro raised and clean still ran
C4_Witness ==
    /\ pc = "aborted"
    /\ idx >= 1
    /\ calls[Len(calls) - 1] = Call("registro", DownloadError, FALSE)
    /\ LastCall.op = "clean"

-----------------------------------------------------------------------------
(* C5 *)

\* C5: once the work list is resolved and items are being processed, no error
\* leaves the loop: the run is never aborted after an item was started.
C5_NoErrorEscapesLoop == pc = "aborted" => idx = 0

-----------------------------------------------------------------------------
(* C6 *)

StageCalls == SelectSeq(calls, LAMBDA c : c.op \in StageSet)

\* C6: the stages of an item are called in the order download, convert,
\* transcribe, render, each at most once; after a failed stage no further
\* stage is called and the very next call is registro with that stage's
\* error, whose row (when written) carries 'Error' and that message.
C6_StageOrderAndFailure ==
    /\ Len(StageCalls) <= Len(Stages)
    /\ \A n \in 1..Len(StageCalls) :
          /\ StageCalls[n].op = Stages[n]
          /\ n < Len(StageCalls) => StageCalls[n].ok
    /\ \A n \in 1..Len(calls) :
          (calls[n].op \in StageSet /\ ~calls[n].ok) =>
             IF n = Len(calls)
             THEN pc = "except" /\ exc = StageError(calls[n].op)
             ELSE /\ calls[n + 1].op = "registro"
                  /\ calls[n + 1].arg = StageError(calls[n].op)
                  /\ calls[n + 1].ok =>
                        log[Len(log)] = error_row(StageError(calls[n].op), url)

\* transcription failed after two successful stages and the row was written
C6_Witness ==
    /\ pc = "loop"
    /\ Len(StageCalls) = 3
    /\ ~StageCalls[3].ok
    /\ log[Len(log)] = error_row(TranscribeError, url)

-----------------------------------------------------------------------------
(* C7 *)

\* C7: an item whose normalization succeeded (it then failed at transcription
\* or rendering, or succeeded) has neither its raw nor its normalized artifact
\* left when it is finished, i.e. when the next item begins or the run ends,
\* provided no removal failed.
C7_ArtifactsRemoved ==
    (/\ ItemFinished
     /\ Called("convert_to_wav", TRUE)
     /\ Called("clean", TRUE))
    => /\ info.filepath \notin files
       /\ (safe_title(info.title.v) \o <<".wav">>) \notin files

\* an item failed at rendering and both artifacts are gone
C7_Witness ==
    /\ pc = "loop"
    /\ Called("word", FALSE)
    /\ Called("clean", TRUE)
    /\ info.filepath \notin files
    /\ (safe_title(info.title.v) \o <<".wav">>) \notin files

-----------------------------------------------------------------------------
(* C8 *)

Headers(lg) == Len(lg) - Len(DataRows(lg))

C8_State ==
    /\ logExists => (log # <<>> /\ log[1] = Header /\ Headers(log) = 1)
    /\ ~logExists => log = <<>>

C8_Step == Headers(log') # Headers(log) => (~logExists /\ Headers(log') = 1)

\* C8: the log, once it exists, has the header exactly once, as its first
\* row; a registro call writes the header only when the log did not exist.
C8_HeaderOnce == []C8_State /\ [][C8_Step]_vars

\* two rows were appended to a log that an earlier run had created
C8_Witness ==
    /\ started.logExists
    /\ Gained = 2
    /\ Headers(log) = 1

-----------------------------------------------------------------------------
(* C9 *)

\* C9: when the run reaches its summary, exitosos is the number of Success
\* rows and fallidos the number of Error rows appended in this run, and they
\* add up to the number of items.
C9_SummaryCounts ==
    pc = "done" =>
       /\ exitosos = Len(SelectSeq(GainedRows, IsSuccess))
       /\ fallidos = Len(SelectSeq(GainedRows, IsError))
       /\ exitosos + fallidos = Len(videos)

\* one item succeeded and one failed
C9_Witness ==
    /\ pc = "done"
    /\ exitosos = 1
    /\ fallidos = 1
    /\ Len(videos) = 2

-----------------------------------------------------------------------------
(* C10 *)

IsBlank(cell) == cell = NaN \/ (cell.k = "str" /\ \A n \in 1..Len(cell.v) : cell.v[n] = " ")

InvalidInput(a) ==
    /\ a.mode = "csv"
    /\ \/ a.name[Len(a.name)] # ".csv"
       \/ ~a.exists
       \/ ~a.hasUrl
       \/ \A n \in 1..Len(a.column) : IsBlank(a.column[n])

\* C10: with an input that fails validation the run stops at input
\* resolution: no item is started, no call is made, and the audit log and the
\* files are as they were when the run started.
C10_ValidationAborts ==
    InvalidInput(argv) =>
       /\ pc \in {"start", "aborted"}
       /\ idx = 0
       /\ videos = <<>>
       /\ calls = <<>>
       /\ Snapshot = started

\* a table with only blank entries was rejected
C10_Witness ==
    /\ pc = "aborted"
    /\ argv.mode = "csv"
    /\ argv.exists
    /\ argv.hasUrl
    /\ Len(argv.column) = MaxRows
    /\ exc = "ValueError: no valid URLs"

-----------------------------------------------------------------------------
(* C11 *)

\* no call made for the item raised (removal failures are not raised)
NoCallFailed == \A n \in 1..Len(calls) : calls[n].op # "clean" => calls[n].ok

MetaFields == {"title", "upload_date", "duration", "view_count"}

\* C11: when the download returned metadata and no call of the item failed,
\* the item is recorded as Success, and every field missing from the metadata
\* is 'N/A' in its row; a missing field is never an error.
C11_AbsentFieldsNeverAnError ==
    (ItemFinished /\ Called("download_video", TRUE) /\ NoCallFailed) =>
       /\ Gained = idx
       /\ IsSuccess(GainedRows[Gained])
       /\ \A f \in MetaFields : info[f] = Absent => GainedRows[Gained][f] = Cell(NA)
       /\ info.uploader = Absent => GainedRows[Gained].channel = Cell(NA)

-----------------------------------------------------------------------------
(* C12 *)

IsDigit(c) == \E n \in 1..Len(Digits) : c = Digits[n]

\* out is raw with a "-" after its 4th and after its 6th character
Dashed(raw, out) ==
    /\ Len(raw) = 8
    /\ Len(out) = 10
    /\ out[5] = "-"
    /\ out[8] = "-"
    /\ \A n \in 1..4 : out[n] = raw[n]
    /\ \A n \in 5..6 : out[n + 1] = raw[n]
    /\ \A n \in 7..8 : out[n + 2] = raw[n]

RegistroReturned == pc = "returned" /\ given.f = "registro"
RawDate == given.x.info.upload_date
RecordedDate == log[Len(log)].upload_date

\* C12 as stated: the recorded date is YYYY-MM-DD for an 8-digit raw date and
\* 'N/A' for every other raw date.
C12_Original ==
    RegistroReturned =>
       IF RawDate.k = "str" /\ Len(RawDate.v) = 8 /\ \A n \in 1..8 : IsDigit(RawDate.v[n])
       THEN Dashed(RawDate.v, RecordedDate.v)
       ELSE RecordedDate = Cell(NA)

\* C12 amended: the recorded date is the raw string with "-" after its 4th
\* and 6th characters when the raw date is a string of exactly 8 characters,
\* 'N/A' when the metadata has no upload_date, and the raw string unchanged
\* when it has any other length.
C12_DateFormatting ==
    RegistroReturned =>
       /\ IsSuccess(log[Len(log)])
       /\ IF RawDate = Absent THEN RecordedDate = Cell(NA)
          ELSE IF Len(RawDate.v) = 8 THEN Dashed(RawDate.v, RecordedDate.v)
          ELSE RecordedDate = RawDate

\* an 8-character raw date was recorded with dashes
C12_Witness ==
    /\ RegistroReturned
    /\ RawDate = Str(<<"1", "1", "1", "1", "1", "1", "1", "1">>)
    /\ Len(RecordedDate.v) = 10

-----------------------------------------------------------------------------
(* C13 *)

WordReturned == pc = "returned" /\ given.f = "word"

NoSegments(result) == result.segments = Absent \/ result.segments.v = <<>>

\* C13: for a result without segments the document is the heading followed
\* by exactly one paragraph that holds the full text verbatim.
C13_FullTextWhenNoSegments ==
    (WordReturned /\ NoSegments(given.x.result)) =>
       /\ Len(returned.v) = 2
       /\ returned.v[1] = Heading
       /\ returned.v[2].kind = "paragraph"
       /\ returned.v[2].bold = <<>>
       /\ returned.v[2].text = given.x.result.text

-----------------------------------------------------------------------------
(* C14 *)

TimestampReturned == pc = "returned" /\ given.f = "format_timestamp"

\* the whole seconds of the argument
Floored == given.x \div 10

DigitValue(c) == CHOOSE n \in 0..9 : Digits[n + 1] = c

\* the number written in the two characters of out that start at position i
Field(out, i) ==
    IF IsDigit(out[i]) /\ IsDigit(out[i + 1])
    THEN 10 * DigitValue(out[i]) + DigitValue(out[i + 1])
    ELSE -1

\* C14: format_timestamp truncates to whole seconds; from 3600 s on it returns
\* 'HH:MM:SS', below that 'MM:SS', two digits per field, minutes and seconds
\* within 00..59, the fields adding up to the truncated seconds; 0 gives
\* '00:00', 125 gives '02:05' and 3725 gives '01:02:05'.
C14_TimestampFormat ==
    TimestampReturned =>
       LET out == returned.v IN
       /\ IF Floored >= 3600
          THEN /\ Len(out) = 8
               /\ out[3] = ":"
               /\ out[6] = ":"
               /\ Field(out, 1) >= 1
               /\ Field(out, 4) \in 0..59
               /\ Field(out, 7) \in 0..59
               /\ 3600 * Field(out, 1) + 60 * Field(out, 4) + Field(out, 7) = Floored
          ELSE /\ Len(out) = 5
               /\ out[3] = ":"
               /\ Field(out, 1) \in 0..59
               /\ Field(out, 4) \in 0..59
               /\ 60 * Field(out, 1) + Field(out, 4) = Floored
       /\ Floored = 0 => out = <<"0", "0", ":", "0", "0">>
       /\ Floored = 125 => out = <<"0", "2", ":", "0", "5">>
       /\ Floored = 3725 => out = <<"0", "1", ":", "0", "2", ":", "0", "5">>

\* 3725.9 s is truncated and written with the hours field
C14_Witness ==
    /\ TimestampReturned
    /\ given.x = 37259
    /\ returned = Str(<<"0", "1", ":", "0", "2", ":", "0", "5">>)

-----------------------------------------------------------------------------
(* C15 *)

\* the text of a table entry
EntryText(cell) == IF cell.k = "num" THEN dec(cell.v) ELSE cell.v

\* t is s without its leading and trailing spaces
IsTrimOf(s, t) ==
    /\ t # <<>>
    /\ t[1] # " "
    /\ t[Len(t)] # " "
    /\ \E i \in 1..Len(s) :
          /\ i + Len(t) - 1 <= Len(s)
          /\ t = SubSeq(s, i, i + Len(t) - 1)
          /\ \A n \in 1..Len(s) : (n < i \/ n > i + Len(t) - 1) => s[n] = " "

NonBlankRows(column) == {n \in 1..Len(column) : ~IsBlank(column[n])}

\* the k-th smallest element of a set of numbers
Nth(S, k) == CHOOSE n \in S : Cardinality({m \in S : m < n}) = k - 1

ResolvableTable(a) ==
    /\ a.mode = "csv"
    /\ a.name[Len(a.name)] = ".csv"
    /\ a.exists
    /\ a.hasUrl
    /\ NonBlankRows(a.column) # {}

\* C15: for a table with a 'url' column and a non-blank entry, the resolved
\* work list is the non-blank entries, trimmed, in row order, none dropped,
\* duplicated or reordered.
C15_ResolvedInRowOrder ==
    (ResolvableTable(argv) /\ pc # "start") =>
       /\ Len(videos) = Cardinality(NonBlankRows(argv.column))
       /\ \A k \in 1..Len(videos) :
             IsTrimOf(EntryText(argv.column[Nth(NonBlankRows(argv.column), k)]), videos[k])

-----------------------------------------------------------------------------
(* C16 *)

CleanDone == calls # <<>> /\ LastCall.op = "clean"

\* C16: clean never raises: a None argument and a path that does not exist
\* are skipped, an existing path is removed unless its removal fails, and
\* after clean the runner is back at the loop (next item or summary).
C16_CleanNeverStopsTheRun ==
    CleanDone =>
       /\ pc \in {"loop", "done"}
       /\ LastCall.ok =>
             /\ input_file # None => input_file.v \notin files
             /\ output_file # None => output_file.v \notin files

-----------------------------------------------------------------------------
(* C17 *)

\* C17: the cleanup step changes neither the audit log nor the counters,
\* whether its removals succeed or fail.
C17_CleanLeavesLogAndCounters ==
    [][pc = "finally" =>
          /\ log' = log
          /\ logExists' = logExists
          /\ exitosos' = exitosos
          /\ fallidos' = fallidos]_vars

\* a removal failed and the item still has its one row and one count
C17_Witness ==
    /\ pc = "loop"
    /\ CleanDone
    /\ ~LastCall.ok
    /\ Gained = idx
    /\ exitosos + fallidos = idx

-----------------------------------------------------------------------------
(* C18 *)

C18_State ==
    /\ idx <= Len(videos)
    /\ \A k \in 1..Gained : GainedRows[k].URL = Cell(videos[k])
    /\ InItem => Gained \in {idx - 1, idx}
    /\ (InItem /\ calls # <<>>) => calls[1].op = "download_video"

C18_Step ==
    /\ idx' # idx =>
          /\ idx' = idx + 1
          /\ pc = "loop"
          /\ calls' = <<>>
          /\ idx >= 1 => (calls # <<>> /\ LastCall.op = "clean")
    /\ (calls' # calls /\ calls' # <<>>) =>
          /\ idx' = idx
          /\ Len(calls') = Len(calls) + 1
          /\ SubSeq(calls', 1, Len(calls)) = calls
    /\ Gained' # Gained =>
          /\ Gained' = Gained + 1
          /\ InItem
          /\ GainedRows'[Gained'].URL = Cell(videos[idx])

\* C18: the items are processed one at a time in the order of the work list:
\* item idx+1 starts only after the clean call of item idx, every call and
\* every appended row belongs to the item in progress, and the rows appended
\* in the run follow the order of the work list.
C18_SequentialInOrder == []C18_State /\ [][C18_Step]_vars

\* two different URLs were processed and recorded in their order
C18_Witness ==
    /\ pc = "done"
    /\ Len(videos) = 2
    /\ videos[1] # videos[2]
    /\ Gained = 2
    /\ GainedRows[1].URL = Cell(videos[1])
    /\ GainedRows[2].URL = Cell(videos[2])

-----------------------------------------------------------------------------
(* C19 *)

LogPath == <<"transcriptions_log", ".csv">>

IsDocument(path) == path # <<>> /\ path[Len(path)] = ".docx"

\* C19: an item starts with input_file = output_file = None; what is handed to
\* clean is None or the raw and converted file of the item in progress (set
\* once its own convert_to_wav has returned), never a path of an earlier
\* item, a document or the audit log.
C19_State ==
    /\ pc = "download" => (input_file = None /\ output_file = None)
    /\ (InItem \/ ItemFinished) =>
          /\ input_file # None =>
                /\ Called("convert_to_wav", TRUE)
                /\ input_file = Str(info.filepath)
                /\ ~IsDocument(input_file.v)
                /\ input_file.v # LogPath
          /\ output_file # None =>
                /\ Called("convert_to_wav", TRUE)
                /\ output_file = Str(safe_title(info.title.v) \o <<".wav">>)
                /\ ~IsDocument(output_file.v)
                /\ output_file.v # LogPath

C19_FreshArtifactsPerItem == []C19_State

\* the second item failed at the download after the first one was rendered:
\* nothing is handed to clean
C19_Witness ==
    /\ pc = "finally"
    /\ idx = 2
    /\ Called("download_video", FALSE)
    /\ started.files = {}
    /\ (TitleA \o <<".docx">>) \in files
    /\ input_file = None
    /\ output_file = None

-----------------------------------------------------------------------------
(* C20 *)

SuccessRows == Len(SelectSeq(GainedRows, IsSuccess))

AllStagesSucceeded ==
    /\ Len(StageCalls) = Len(Stages)
    /\ \A n \in 1..Len(Stages) : StageCalls[n] = Call(Stages[n], "", TRUE)

SuccessRecordingRaised == \E n \in 1..Len(calls) : calls[n] = Call("registro", "info", FALSE)

C20_State ==
    /\ pc \notin {"start", "load"} => exitosos = SuccessRows
    /\ (ItemFinished /\ (StageFailed \/ SuccessRecordingRaised)) =>
          (Gained = idx => IsError(GainedRows[idx]))

C20_Step ==
    (exitosos' # exitosos \/ SuccessRows' # SuccessRows) =>
       /\ pc = "registro"
       /\ AllStagesSucceeded
       /\ calls = StageCalls
       /\ exitosos' = exitosos + 1
       /\ SuccessRows' = SuccessRows + 1
       /\ GainedRows'[Gained'] = success_row(info, videos[idx])

\* C20: a Success row is appended and exitosos incremented only right after
\* download, convert, transcribe and render of the item all returned, in that
\* order; an item with a failed stage or a raising success-path registro gets
\* an Error row (or none) and is not counted in exitosos.
C20_SuccessOnlyAfterAllStages == []C20_State /\ [][C20_Step]_vars

\* the success-path registro of the second item raised: it is counted as failed
C20_Witness ==
    /\ pc = "loop"
    /\ idx = 2
    /\ AllStagesSucceeded
    /\ SuccessRecordingRaised
    /\ exitosos = 1
    /\ fallidos = 1
    /\ IsError(GainedRows[2])

====
